---- MODULE Spec2Model ----
(***************************************************************************)
(* Model of video-silence-cutter-GUI.py: the VideoSilenceCutter engine     *)
(* (find_silences, segments_from_silence, make_filters, process) and the   *)
(* part of EnhancedSilenceCutterApp that drives it (_start, run, _stop).   *)
(*                                                                         *)
(* Time stamps and durations are Python floats in the source; they are     *)
(* modelled as natural numbers of an arbitrary time unit, so the model     *)
(* says nothing about floating-point rounding.                             *)
(***************************************************************************)
EXTENDS Integers, Sequences, FiniteSets, TLC

\* ---------------------------------------------------------------- bounds
\* largest time stamp / duration the environment reports
MaxT == 3
\* largest time stamp / duration and longest event list handed to
\* segments_from_silence when it is called on its own
MaxSegT == 5
MaxLen == 4
\* most lines of detection output (stderr of the detection sub-process)
MaxLines == 2
\* most lines handed to the parsing loop of find_silences when it is run on
\* its own
MaxParseLines == 3
\* cp.stderr[:500]
StderrLimit == 500

VARIABLES
    \* ---- VideoSilenceCutter / EnhancedSilenceCutterApp
    cancelled,      \* self._cancelled
    deps,           \* what check_dependencies() returned at construction
    pc,             \* position of the worker thread (self.thread)
    dialog,         \* last message box shown by _start on the GUI thread
    opts,           \* ProcessingOptions of the current run
    \* ---- locals of process()
    dur, sil, segs, keep, enc, rc, errLen,
    \* ---- locals of run()
    result,         \* <<>> or <<ProcessingResult>>
    notifications,  \* sequence of message boxes shown by run()
    \* ---- the world process() acts on
    tempFiles,      \* the current run's two temporary files, each "none"
                    \* (not created), "exists" or "deleted"
    leaked,         \* a temporary file of an earlier run still exists
    outFile,        \* what the current run did to the output path
    launched,       \* sub-processes launched by the current run, in order
    callbacks,      \* log/progress callback invocations of the current run
    uncaught,       \* the exception that escaped the worker thread, if any
    \* ---- history of the current run
    stops,          \* phases of the run in which _stop() called cancel()
                    \* ("pre": before the detection sub-process is launched)
    detectSkipped,  \* find_silences returned [] at line 256
    \* ---- segments_from_silence called on its own
    sgSil, sgDur, sgOut, sgDone,
    \* ---- the parsing loop of find_silences run on its own
    psLines, psOut, psDone

vars == << cancelled, deps, pc, dialog, leaked, opts, dur, sil, segs, keep, enc,
           rc, errLen, result, notifications, tempFiles, outFile, launched,
           callbacks, uncaught, stops, detectSkipped,
           sgSil, sgDur, sgOut, sgDone, psLines, psOut, psDone >>

procVars == << cancelled, deps, pc, dialog, leaked, opts, dur, sil, segs, keep,
               enc, rc, errLen, result, notifications, tempFiles, outFile,
               launched, callbacks, uncaught, stops, detectSkipped >>

segVars == << sgSil, sgDur, sgOut, sgDone, psLines, psOut, psDone >>

\* ------------------------------------------------------------ data model
Times == 0..MaxT

VideoSegment(s, e) == [start |-> s, end |-> e]

IsMonotone(s) == \A i \in 1..(Len(s) - 1) : s[i] <= s[i + 1]

SeqsUpTo(S, n) == UNION { [1..k -> S] : k \in 0..n }

\* SilenceEvent streams: alternating start/end, monotonically non-decreasing,
\* possibly ending on an unmatched start (odd length)
SegTimes == 0..MaxSegT

EventLists == { s \in SeqsUpTo(SegTimes, MaxLen) : IsMonotone(s) }

RECURSIVE SumSeq(_)
SumSeq(s) == IF s = <<>> THEN 0 ELSE Head(s) + SumSeq(Tail(s))

SegLengths(ss) == [i \in 1..Len(ss) |-> ss[i].end - ss[i].start]

\* -------------------------------------------------- segments_from_silence
\* SegWalk with the cursor left at the start of the silence (cur = start)
RECURSIVE SegWalkCurStart(_, _, _, _)
SegWalkCurStart(silences, i, cur, acc) ==
    IF i > Len(silences) THEN [cur |-> cur, segs |-> acc]
    ELSE IF i + 1 <= Len(silences)
         THEN SegWalkCurStart(silences, i + 2, silences[i],
                   IF silences[i] > cur
                   THEN Append(acc, VideoSegment(cur, silences[i]))
                   ELSE acc)
         ELSE SegWalkCurStart(silences, i + 2, cur, acc)

\* SegWalk with the test start >= cur in place of start > cur
RECURSIVE SegWalkGe(_, _, _, _)
SegWalkGe(silences, i, cur, acc) ==
    IF i > Len(silences) THEN [cur |-> cur, segs |-> acc]
    ELSE IF i + 1 <= Len(silences)
         THEN SegWalkGe(silences, i + 2, silences[i + 1],
                   IF silences[i] >= cur
                   THEN Append(acc, VideoSegment(cur, silences[i]))
                   ELSE acc)
         ELSE SegWalkGe(silences, i + 2, cur, acc)

\* the loop of lines 289-294; i is the 1-based index of silences[i], an
\* unmatched last element is skipped
RECURSIVE SegWalk(_, _, _, _)
SegWalk(silences, i, cur, acc) ==
    IF i > Len(silences) THEN [cur |-> cur, segs |-> acc]
    ELSE IF i + 1 <= Len(silences)
         THEN SegWalk(silences, i + 2, silences[i + 1],
                   IF silences[i] > cur
                   THEN Append(acc, VideoSegment(cur, silences[i]))
                   ELSE acc)
         ELSE SegWalk(silences, i + 2, cur, acc)

segments_from_silence(silences, duration) ==
    IF silences = <<>> THEN << VideoSegment(0, duration) >>
    ELSE LET w == SegWalk(silences, 1, 0, <<>>)
         IN  IF w.cur < duration
             THEN Append(w.segs, VideoSegment(w.cur, duration))
             ELSE w.segs

\* ------------------------------------------------------------ environment
Markers == {"silence_start", "silence_end"}

\* One line of the detection sub-process's stderr: the marker the regular
\* expressions of lines 274/276 find on it ("none": neither matches) and the
\* text ([\d.]+) captured after it; numOk says whether float() accepts that
\* text (it rejects e.g. "1.2.3"), val is the number it then returns.
LineSet ==
    { [marker |-> m, numOk |-> ok, val |-> v] :
          m \in Markers, ok \in BOOLEAN, v \in Times }
    \cup { [marker |-> "none", numOk |-> TRUE, val |-> 0] }

MarkedLines(lines) == SelectSeq(lines, LAMBDA l : l.marker \in Markers)

\* the detection tool reports silences in chronological order, start and end
\* markers alternating, a start first, no time stamp beyond the duration d of
\* the media; a malformed payload carries no value
Chronological(lines, d) ==
    LET ml == MarkedLines(lines)
        ok == SelectSeq(ml, LAMBDA l : l.numOk)
    IN  /\ \A i \in 1..Len(lines) : lines[i].numOk \/ lines[i].val = 0
        /\ \A i \in 1..Len(ml) :
              ml[i].marker = (IF i % 2 = 1 THEN "silence_start" ELSE "silence_end")
        /\ IsMonotone([i \in 1..Len(ok) |-> ok[i].val])
        /\ \A i \in 1..Len(ok) : ok[i].val <= d

DetectOutputs(d) == { s \in SeqsUpTo(LineSet, MaxLines) : Chronological(s, d) }

\* lengths of the text the encode sub-process may leave on stderr
StderrLens == {0, 7, StderrLimit, 4 * StderrLimit}

Presets == {"medium", "veryfast"}

OptionSet == [use_cuda : BOOLEAN, quality_preset : Presets]

\* SystemDependencies as check_dependencies computes them from what the
\* machine holds: "cuda" is only looked for when ffmpeg itself was found
check_dependencies(ffmpegExists, ffprobeExists, nvencListed) ==
    [ffmpeg |-> ffmpegExists, ffprobe |-> ffprobeExists,
     cuda |-> ffmpegExists /\ nvencListed]

\* ----------------------------------------------------------- find_silences
\* lines 272-278: raised is the ValueError of float() leaving the loop
RECURSIVE ParseLines(_, _)
ParseLines(lines, times) ==
    IF lines = <<>> THEN [raised |-> FALSE, times |-> times]
    ELSE LET l == Head(lines)
         IN  IF l.marker \in Markers
             THEN IF l.numOk
                  THEN ParseLines(Tail(lines), Append(times, l.val))
                  ELSE [raised |-> TRUE, times |-> times]
             ELSE ParseLines(Tail(lines), times)

\* -------------------------------------------------------- ProcessingResult
NoMsg == [kind |-> "None", len |-> 0]

Msg(k, n) == [kind |-> k, len |-> n]

\* the record with its second and fourth positional fields taken in the
\* wrong order
ProcessingResultRemovedFirst(ok, inD, outD, remD, n, msg) ==
    [success |-> ok, input_duration |-> remD, output_duration |-> outD,
     removed_duration |-> inD, segments_removed |-> n, error_message |-> msg]

ProcessingResult(ok, inD, outD, remD, n, msg) ==
    [success |-> ok, input_duration |-> inD, output_duration |-> outD,
     removed_duration |-> remD, segments_removed |-> n, error_message |-> msg]

Min(a, b) == IF a <= b THEN a ELSE b

\* cp.stderr[:500]
Truncate(n) == Min(n, StderrLimit)

\* lines 329-333
EncoderArgs(o) ==
    IF o.use_cuda
    THEN << "-c:v", "h264_nvenc", "-preset", o.quality_preset >>
    ELSE << "-c:v", "libx264", "-preset", o.quality_preset, "-crf", "23" >>

\* ------------------------------------------------------------------ thread
Alive(p) == p \notin {"idle", "done", "crashed"}

\* where the worker is when cancel() is called: before the detection
\* sub-process is launched, between its launch and the check of line 318,
\* or after that check
Phase(p) ==
    IF p \in {"p311", "p312", "fs255", "fs258"} THEN "pre"
    ELSE IF p \in {"fs_wait", "p318"} THEN "detect"
    ELSE "post"

Crash(exc) ==
    /\ pc' = "crashed"
    /\ uncaught' = exc

TempNames == {"vf", "af"}

NoTempFiles == [f \in TempNames |-> "none"]

\* ------------------------------------------------------------------- Init
ProcInit ==
    /\ cancelled = FALSE
    /\ deps \in { check_dependencies(a, b, c) : a, b, c \in BOOLEAN }
    /\ pc = "idle"
    /\ dialog = "none"
    /\ leaked = FALSE
    /\ opts = [use_cuda |-> TRUE, quality_preset |-> "medium"]
    /\ dur = 0
    /\ sil = <<>>
    /\ segs = <<>>
    /\ keep = 0
    /\ enc = <<>>
    /\ rc = 0
    /\ errLen = 0
    /\ result = <<>>
    /\ notifications = <<>>
    /\ tempFiles = NoTempFiles
    /\ outFile = "untouched"
    /\ launched = <<>>
    /\ callbacks = <<>>
    /\ uncaught = "none"
    /\ stops = {}
    /\ detectSkipped = FALSE

SegIdle ==
    /\ sgSil = <<>>
    /\ sgDur = 0
    /\ sgOut = <<>>
    /\ sgDone = FALSE

ParseIdle ==
    /\ psLines = <<>>
    /\ psOut = [raised |-> FALSE, times |-> <<>>]
    /\ psDone = FALSE

Init == ProcInit /\ SegIdle /\ ParseIdle

\* ------------------------------------------------- GUI thread: _start/_stop
\* _start, lines 505-507: a worker is still alive
StartBusy ==
    /\ Alive(pc)
    /\ dialog' = "Busy"
    /\ UNCHANGED << cancelled, deps, pc, leaked, opts, dur, sil, segs, keep, enc,
                    rc, errLen, result, notifications, tempFiles, outFile,
                    launched, callbacks, uncaught, stops, detectSkipped >>
    /\ UNCHANGED segVars

\* _start, lines 508-521: a path is missing, or an option is not numeric
StartRejected ==
    /\ ~Alive(pc)
    /\ \E pathsGiven, numeric \in BOOLEAN :
          /\ ~(pathsGiven /\ numeric)
          /\ dialog' = (IF ~pathsGiven THEN "Missing" ELSE "Invalid")
    /\ UNCHANGED << cancelled, deps, pc, leaked, opts, dur, sil, segs, keep, enc,
                    rc, errLen, result, notifications, tempFiles, outFile,
                    launched, callbacks, uncaught, stops, detectSkipped >>
    /\ UNCHANGED segVars

\* _start without the test of lines 505-507: a worker thread is started
\* whether or not one is alive
StartUnguarded ==
    /\ \E o \in OptionSet : opts' = o
    /\ leaked' = (leaked \/ \E f \in TempNames : tempFiles[f] = "exists")
    /\ tempFiles' = NoTempFiles
    /\ pc' = "p311"
    /\ dialog' = "none"
    /\ dur' = 0
    /\ sil' = <<>>
    /\ segs' = <<>>
    /\ keep' = 0
    /\ enc' = <<>>
    /\ rc' = 0
    /\ errLen' = 0
    /\ result' = <<>>
    /\ notifications' = <<>>
    /\ outFile' = "untouched"
    /\ launched' = <<>>
    /\ callbacks' = <<>>
    /\ uncaught' = "none"
    /\ stops' = {}
    /\ detectSkipped' = FALSE
    /\ UNCHANGED << cancelled, deps >>
    /\ UNCHANGED segVars

\* _start, lines 505-535: the worker thread is created and started; the
\* locals of the new run() and the history of the run start empty
Start ==
    /\ ~Alive(pc)
    /\ \E o \in OptionSet : opts' = o
    /\ leaked' = (leaked \/ \E f \in TempNames : tempFiles[f] = "exists")
    /\ tempFiles' = NoTempFiles
    /\ pc' = "p311"
    /\ dialog' = "none"
    /\ dur' = 0
    /\ sil' = <<>>
    /\ segs' = <<>>
    /\ keep' = 0
    /\ enc' = <<>>
    /\ rc' = 0
    /\ errLen' = 0
    /\ result' = <<>>
    /\ notifications' = <<>>
    /\ outFile' = "untouched"
    /\ launched' = <<>>
    /\ callbacks' = <<>>
    /\ uncaught' = "none"
    /\ stops' = {}
    /\ detectSkipped' = FALSE
    /\ UNCHANGED << cancelled, deps >>
    /\ UNCHANGED segVars

\* _stop, lines 537-539, and cancel, lines 160-161
Stop ==
    /\ cancelled' = TRUE
    /\ stops' = (IF Alive(pc) /\ Phase(pc) = "pre" THEN stops \cup {"pre"} ELSE stops)
    /\ UNCHANGED << deps, pc, dialog, leaked, opts, dur, sil, segs, keep, enc,
                    rc, errLen, result, notifications, tempFiles, outFile,
                    launched, callbacks, uncaught, detectSkipped >>
    /\ UNCHANGED segVars

\* ------------------------------------------------ worker thread: process()
\* line 311
ResetCancelled ==
    /\ pc = "p311"
    /\ cancelled' = FALSE
    /\ pc' = "p312"
    /\ UNCHANGED << deps, dialog, leaked, opts, dur, sil, segs, keep, enc, rc,
                    errLen, result, notifications, tempFiles, outFile,
                    launched, callbacks, uncaught, stops, detectSkipped >>
    /\ UNCHANGED segVars

\* a test that no duration passes
DurationIsNegative(d) == d < 0

\* line 314: dur == 0
DurationIsUnknown(d) == d = 0

\* lines 312-315 with get_video_info, lines 191-249: ffprobe reports a
\* duration d (0 when the format carries none), or anything in the try block
\* raises, which is logged and answered with a zeroed record
GetVideoInfo ==
    /\ pc = "p312"
    /\ \E probed \in BOOLEAN, d \in Times :
          /\ probed => deps.ffprobe
          /\ ~probed => d = 0
          /\ dur' = d
          /\ callbacks' = (IF probed THEN callbacks
                           ELSE Append(callbacks,
                                    [fn |-> "_log", level |-> "ERROR", line |-> 238]))
          /\ IF DurationIsUnknown(d)
             THEN /\ result' = << ProcessingResult(FALSE, 0, 0, 0, 0,
                                                   Msg("Duration unknown", 16)) >>
                  /\ pc' = "run525"
             ELSE /\ result' = result
                  /\ pc' = "fs255"
    /\ UNCHANGED << cancelled, deps, dialog, leaked, opts, sil, segs, keep, enc,
                    rc, errLen, notifications, tempFiles, outFile, launched,
                    uncaught, stops, detectSkipped >>
    /\ UNCHANGED segVars

\* find_silences clearing the flag it has seen, which lines 255-256 do not
FindSilencesConsumesFlag ==
    /\ pc = "fs255"
    /\ IF cancelled
       THEN /\ sil' = <<>>
            /\ detectSkipped' = TRUE
            /\ cancelled' = FALSE
            /\ callbacks' = callbacks
            /\ pc' = "p318"
       ELSE /\ callbacks' = Append(callbacks,
                                [fn |-> "_log", level |-> "DEBUG", line |-> 257])
            /\ pc' = "fs258"
            /\ UNCHANGED << sil, detectSkipped, cancelled >>
    /\ UNCHANGED << deps, dialog, leaked, opts, dur, segs, keep, enc,
                    rc, errLen, result, notifications, tempFiles, outFile,
                    launched, uncaught, stops >>
    /\ UNCHANGED segVars

\* find_silences, lines 255-257
FindSilencesEnter ==
    /\ pc = "fs255"
    /\ IF cancelled
       THEN /\ sil' = <<>>
            /\ detectSkipped' = TRUE
            /\ callbacks' = callbacks
            /\ pc' = "p318"
       ELSE /\ callbacks' = Append(callbacks,
                                [fn |-> "_log", level |-> "DEBUG", line |-> 257])
            /\ pc' = "fs258"
            /\ UNCHANGED << sil, detectSkipped >>
    /\ UNCHANGED << cancelled, deps, dialog, leaked, opts, dur, segs, keep, enc,
                    rc, errLen, result, notifications, tempFiles, outFile,
                    launched, uncaught, stops >>
    /\ UNCHANGED segVars

\* find_silences, line 258: subprocess.run starts the detection sub-process,
\* or raises OSError (the executable is missing, or the launch fails)
LaunchDetect ==
    /\ pc = "fs258"
    /\ \E started \in BOOLEAN :
          /\ started => deps.ffmpeg
          /\ IF started
             THEN /\ launched' = Append(launched, [tool |-> "detect", args |-> <<>>])
                  /\ pc' = "fs_wait"
                  /\ uncaught' = uncaught
             ELSE /\ Crash("OSError")
                  /\ launched' = launched
    /\ UNCHANGED << cancelled, deps, dialog, leaked, opts, dur, sil, segs, keep,
                    enc, rc, errLen, result, notifications, tempFiles, outFile,
                    callbacks, stops, detectSkipped >>
    /\ UNCHANGED segVars

\* find_silences, lines 258-278: the detection sub-process ends (its exit
\* status is not read) and its stderr is parsed
DetectDone ==
    /\ pc = "fs_wait"
    /\ \E stderr \in DetectOutputs(dur) :
          LET p == ParseLines(stderr, <<>>)
          IN  IF p.raised
              THEN /\ Crash("ValueError")
                   /\ sil' = sil
              ELSE /\ sil' = p.times
                   /\ pc' = "p318"
                   /\ uncaught' = uncaught
    /\ UNCHANGED << cancelled, deps, dialog, leaked, opts, dur, segs, keep, enc,
                    rc, errLen, result, notifications, tempFiles, outFile,
                    launched, callbacks, stops, detectSkipped >>
    /\ UNCHANGED segVars

\* lines 318-319
CheckCancelled ==
    /\ pc = "p318"
    /\ IF cancelled
       THEN /\ result' = << ProcessingResult(FALSE, dur, 0, 0, 0,
                                             Msg("Cancelled", 9)) >>
            /\ pc' = "run525"
       ELSE /\ result' = result
            /\ pc' = "p321"
    /\ UNCHANGED << cancelled, deps, dialog, leaked, opts, dur, sil, segs, keep,
                    enc, rc, errLen, notifications, tempFiles, outFile,
                    launched, callbacks, uncaught, stops, detectSkipped >>
    /\ UNCHANGED segVars

\* lines 321-333: nothing detected, so the input is copied (shutil.copy2 may
\* raise OSError); otherwise the segments, the kept time and the encoder
\* arguments are computed
CopyOrCompute ==
    /\ pc = "p321"
    /\ IF sil = <<>>
       THEN /\ \E copied \in BOOLEAN :
                  IF copied
                  THEN /\ outFile' = "copied"
                       /\ result' = << ProcessingResult(TRUE, dur, dur, 0, 0, NoMsg) >>
                       /\ pc' = "run525"
                       /\ uncaught' = uncaught
                  ELSE /\ Crash("OSError")
                       /\ UNCHANGED << outFile, result >>
            /\ UNCHANGED << segs, keep, enc >>
       ELSE /\ segs' = segments_from_silence(sil, dur)
            /\ keep' = SumSeq(SegLengths(segments_from_silence(sil, dur)))
            /\ enc' = EncoderArgs(opts)
            /\ pc' = "p335"
            /\ UNCHANGED << outFile, result, uncaught >>
    /\ UNCHANGED << cancelled, deps, dialog, leaked, opts, dur, sil, rc, errLen,
                    notifications, tempFiles, launched, callbacks, stops,
                    detectSkipped >>
    /\ UNCHANGED segVars

\* lines 335-337: the two NamedTemporaryFile(delete=False) are created in
\* turn; either creation may raise OSError, and a file already created stays
CreateTempFiles ==
    /\ pc = "p335"
    /\ \E made \in 0..2 :
          /\ tempFiles' = [vf |-> IF made >= 1 THEN "exists" ELSE "none",
                            af |-> IF made >= 2 THEN "exists" ELSE "none"]
          /\ IF made = 2
             THEN pc' = "p338" /\ uncaught' = uncaught
             ELSE Crash("OSError")
    /\ UNCHANGED << cancelled, deps, dialog, leaked, opts, dur, sil, segs, keep,
                    enc, rc, errLen, result, notifications, outFile, launched,
                    callbacks, stops, detectSkipped >>
    /\ UNCHANGED segVars

\* lines 338-341: write and flush, which may raise OSError; the with block
\* then closes the files and deletes nothing
WriteFilters ==
    /\ pc = "p338"
    /\ \E written \in BOOLEAN :
          IF written
          THEN pc' = "p359" /\ uncaught' = uncaught
          ELSE Crash("OSError")
    /\ UNCHANGED << cancelled, deps, dialog, leaked, opts, dur, sil, segs, keep,
                    enc, rc, errLen, result, notifications, tempFiles, outFile,
                    launched, callbacks, stops, detectSkipped >>
    /\ UNCHANGED segVars

\* a third checkpoint, which process() does not have: the flag read again
\* before the encode sub-process is launched
LaunchEncodeCheckpoint ==
    /\ pc = "p359"
    /\ IF cancelled
       THEN /\ result' = << ProcessingResult(FALSE, dur, 0, 0, 0,
                                             Msg("Cancelled", 9)) >>
            /\ pc' = "run525"
            /\ UNCHANGED << launched, uncaught >>
       ELSE /\ launched' = Append(launched, [tool |-> "encode", args |-> enc])
            /\ pc' = "enc_wait"
            /\ UNCHANGED << result, uncaught >>
    /\ UNCHANGED << cancelled, deps, dialog, leaked, opts, dur, sil, segs, keep,
                    enc, rc, errLen, notifications, tempFiles, outFile,
                    callbacks, stops, detectSkipped >>
    /\ UNCHANGED segVars

\* lines 343-359: subprocess.run starts the encode sub-process, or raises
LaunchEncode ==
    /\ pc = "p359"
    /\ \E started \in BOOLEAN :
          /\ started => deps.ffmpeg
          /\ IF started
             THEN /\ launched' = Append(launched, [tool |-> "encode", args |-> enc])
                  /\ pc' = "enc_wait"
                  /\ uncaught' = uncaught
             ELSE /\ Crash("OSError")
                  /\ launched' = launched
    /\ UNCHANGED << cancelled, deps, dialog, leaked, opts, dur, sil, segs, keep,
                    enc, rc, errLen, result, notifications, tempFiles, outFile,
                    callbacks, stops, detectSkipped >>
    /\ UNCHANGED segVars

\* line 359: the encode sub-process, told to overwrite the output path (-y),
\* ends with an exit status and stderr text; errLen is the length of that
\* text, which the code reads only when the status is not 0
EncodeDone ==
    /\ pc = "enc_wait"
    /\ \E status \in {0, 1}, n \in StderrLens :
          /\ status = 0 => n = 0
          /\ rc' = status
          /\ errLen' = n
    /\ outFile' = "encoded"
    /\ pc' = "p360"
    /\ UNCHANGED << cancelled, deps, dialog, leaked, opts, dur, sil, segs, keep,
                    enc, result, notifications, tempFiles, launched, callbacks,
                    uncaught, stops, detectSkipped >>
    /\ UNCHANGED segVars

\* lines 360-361: os.unlink of the two files, still open inside the with
\* block; where an open file cannot be removed the call raises
UnlinkTempFiles ==
    /\ pc = "p360"
    /\ \E removed \in 0..2 :
          /\ tempFiles' = [vf |-> IF removed >= 1 THEN "deleted" ELSE "exists",
                            af |-> IF removed >= 2 THEN "deleted" ELSE "exists"]
          /\ IF removed = 2
             THEN pc' = "p363" /\ uncaught' = uncaught
             ELSE Crash("OSError")
    /\ UNCHANGED << cancelled, deps, dialog, leaked, opts, dur, sil, segs, keep,
                    enc, rc, errLen, result, notifications, outFile, launched,
                    callbacks, stops, detectSkipped >>
    /\ UNCHANGED segVars

\* a check of the flag after the encode, which lines 363-366 do not make
ReturnEncodedCancellable ==
    /\ pc = "p363"
    /\ result' = << IF cancelled
                    THEN ProcessingResult(FALSE, dur, 0, 0, 0, Msg("Cancelled", 9))
                    ELSE IF rc = 0
                    THEN ProcessingResult(TRUE, dur, keep, dur - keep,
                                          Len(segs) - 1, NoMsg)
                    ELSE ProcessingResult(FALSE, 0, 0, 0, 0,
                                          Msg("stderr", Truncate(errLen))) >>
    /\ pc' = "run525"
    /\ UNCHANGED << cancelled, deps, dialog, leaked, opts, dur, sil, segs, keep,
                    enc, rc, errLen, notifications, tempFiles, outFile,
                    launched, callbacks, uncaught, stops, detectSkipped >>
    /\ UNCHANGED segVars

\* lines 363-366
ReturnEncoded ==
    /\ pc = "p363"
    /\ result' = << IF rc = 0
                    THEN ProcessingResult(TRUE, dur, keep, dur - keep,
                                          Len(segs) - 1, NoMsg)
                    ELSE ProcessingResult(FALSE, 0, 0, 0, 0,
                                          Msg("stderr", Truncate(errLen))) >>
    /\ pc' = "run525"
    /\ UNCHANGED << cancelled, deps, dialog, leaked, opts, dur, sil, segs, keep,
                    enc, rc, errLen, notifications, tempFiles, outFile,
                    launched, callbacks, uncaught, stops, detectSkipped >>
    /\ UNCHANGED segVars

\* ---------------------------------------------------- worker thread: run()
\* lines 525-532: one message box; the percentage divides by input_duration
Notify ==
    /\ pc = "run525"
    /\ LET res == result[1]
       IN  IF res.success
           THEN IF res.input_duration = 0
                THEN /\ Crash("ZeroDivisionError")
                     /\ notifications' = notifications
                ELSE /\ notifications' = Append(notifications,
                            [box |-> "showinfo", text |-> NoMsg])
                     /\ pc' = "done"
                     /\ uncaught' = uncaught
           ELSE /\ notifications' = Append(notifications,
                       [box |-> "showerror",
                        text |-> IF res.error_message.len = 0
                                 THEN Msg("Unknown error", 13)
                                 ELSE res.error_message])
                /\ pc' = "done"
                /\ uncaught' = uncaught
    /\ UNCHANGED << cancelled, deps, dialog, leaked, opts, dur, sil, segs, keep,
                    enc, rc, errLen, result, tempFiles, outFile, launched,
                    callbacks, stops, detectSkipped >>
    /\ UNCHANGED segVars

\* ---------------------------------------------------------- specification
Next ==
    \/ StartBusy
    \/ StartRejected
    \/ Start
    \/ Stop
    \/ ResetCancelled
    \/ GetVideoInfo
    \/ FindSilencesEnter
    \/ LaunchDetect
    \/ DetectDone
    \/ CheckCancelled
    \/ CopyOrCompute
    \/ CreateTempFiles
    \/ WriteFilters
    \/ LaunchEncode
    \/ EncodeDone
    \/ UnlinkTempFiles
    \/ ReturnEncoded
    \/ Notify

Spec == Init /\ [][Next]_vars

\* ------------------------------------ segments_from_silence called directly
InitSeg ==
    /\ ProcInit
    /\ sgSil \in EventLists
    /\ sgDur \in SegTimes
    /\ sgOut = <<>>
    /\ sgDone = FALSE
    /\ ParseIdle

SegCall ==
    /\ ~sgDone
    /\ sgOut' = segments_from_silence(sgSil, sgDur)
    /\ sgDone' = TRUE
    /\ UNCHANGED << sgSil, sgDur, psLines, psOut, psDone >>
    /\ UNCHANGED procVars

NextSeg == SegCall

SpecSeg == InitSeg /\ [][NextSeg]_vars

\* ------------------------- the parsing loop of find_silences run on its own
\* any text may stand on stderr: lines in any order, with or without a
\* marker, the captured payload a number or not
ParseInputs ==
    { s \in SeqsUpTo(LineSet, MaxParseLines) :
          \A i \in 1..Len(s) : s[i].numOk \/ s[i].val = 0 }

InitParse ==
    /\ ProcInit
    /\ SegIdle
    /\ psLines \in ParseInputs
    /\ psOut = [raised |-> FALSE, times |-> <<>>]
    /\ psDone = FALSE

\* lines 272-278
ParseCall ==
    /\ ~psDone
    /\ psOut' = ParseLines(psLines, <<>>)
    /\ psDone' = TRUE
    /\ UNCHANGED << psLines, sgSil, sgDur, sgOut, sgDone >>
    /\ UNCHANGED procVars

NextParse == ParseCall

SpecParse == InitParse /\ [][NextParse]_vars

\* ------------------------------------------------------------- properties
\* the run has ended: run() returned, or an exception ended the thread
Finished == pc \in {"done", "crashed"}

Launches(tool) == { i \in DOMAIN launched : launched[i].tool = tool }

\* process() is past line 325: segs holds the result of the segment calculation
SegsComputed ==
    pc \in {"p335", "p338", "p359", "enc_wait", "p360", "p363", "run525",
            "done", "crashed"} /\ sil # <<>> /\ enc # <<>>

IsFailure(r) == ~r.success /\ r.error_message.len > 0

ZeroTimes(r) ==
    /\ r.input_duration = 0
    /\ r.output_duration = 0
    /\ r.removed_duration = 0
    /\ r.segments_removed = 0

\* C1: when the segment calculation over a non-empty silence list yields no
\* keep segment, the encode sub-process is never launched and the result the
\* run returns is a failure with an error message.
C1_AllSilentFails ==
    (SegsComputed /\ segs = <<>>) =>
        /\ Launches("encode") = {}
        /\ result # <<>> => IsFailure(result[1])

\* C2: a run that created both temporary files has deleted both by the time
\* it ends, whichever way it ends.
C2_TempFilesDeleted ==
    (Finished /\ \A f \in TempNames : tempFiles[f] # "none") =>
        \A f \in TempNames : tempFiles[f] = "deleted"

\* C3: with a known non-zero duration, a cancel() made after the worker was
\* spawned and before the detection sub-process is launched means that no
\* sub-process is ever launched and that the run, when it returns, returns
\* Cancelled.
C3_EarlyCancelWins ==
    ("pre" \in stops /\ dur # 0) =>
        /\ launched = <<>>
        /\ pc = "done" => result[1].error_message.kind = "Cancelled"

\* C4: every ProcessingResult is a success without error message, or a
\* failure with a non-empty error message and all timing fields and
\* segments_removed zero.
C4_ResultShape ==
    result # <<>> =>
        \/ result[1].success /\ result[1].error_message = NoMsg
        \/ IsFailure(result[1]) /\ ZeroTimes(result[1])

\* C5: the encode sub-process gets the hardware encoder exactly when the
\* option asks for it and the dependency probe found it; otherwise libx264
\* with the requested preset and -crf 23.
C5_EncoderTier ==
    \A i \in Launches("encode") :
        launched[i].args =
            IF opts.use_cuda /\ deps.cuda
            THEN << "-c:v", "h264_nvenc", "-preset", opts.quality_preset >>
            ELSE << "-c:v", "libx264", "-preset", opts.quality_preset,
                    "-crf", "23" >>

\* strictly ordered by start, pairwise non-overlapping, each of positive length
OrderedDisjointPositive(ss) ==
    /\ \A i \in DOMAIN ss : 0 <= ss[i].start /\ ss[i].start < ss[i].end
    /\ \A i, j \in DOMAIN ss :
          i < j => ss[i].start < ss[j].start /\ ss[i].end <= ss[j].start

\* C6 as stated: for every well-formed event list and every non-negative
\* duration the segments returned are strictly ordered, non-overlapping and
\* of positive length.
C6_SegmentsWellFormed_AsClaimed ==
    sgDone => OrderedDisjointPositive(sgOut)

\* C6 amended: the same, except for the empty event list with duration 0,
\* where the single zero-length segment (0, 0) is returned.
C6_SegmentsWellFormed ==
    (sgDone /\ ~(sgSil = <<>> /\ sgDur = 0)) => OrderedDisjointPositive(sgOut)

C6_Witness ==
    /\ sgDone
    /\ Len(sgSil) = 4
    /\ Len(sgOut) = 3

StrictlyWithin(silences, duration) ==
    \A i \in DOMAIN silences : 0 < silences[i] /\ silences[i] < duration

\* sum of end - start over the pairs of an even-length list
SilenceSum(silences) ==
    SumSeq([k \in 1..(Len(silences) \div 2) |->
                silences[2 * k] - silences[2 * k - 1]])

\* C7: for an even-length monotone silence list strictly within
\* (0, duration), the lengths of the returned segments and the lengths of
\* the silence intervals add up to the duration.
C7_DurationConserved ==
    (sgDone /\ Len(sgSil) % 2 = 0 /\ StrictlyWithin(sgSil, sgDur)) =>
        SumSeq(SegLengths(sgOut)) + SilenceSum(sgSil) = sgDur

C7_Witness ==
    /\ sgDone
    /\ Len(sgSil) = 4
    /\ StrictlyWithin(sgSil, sgDur)
    /\ SilenceSum(sgSil) >= 2
    /\ Len(sgOut) = 3

\* C8: for an odd-length event list no returned segment covers any time
\* after the dangling start, the last element.
C8_DanglingStartExcluded ==
    (sgDone /\ Len(sgSil) % 2 = 1) =>
        \A i \in DOMAIN sgOut : sgOut[i].end <= sgSil[Len(sgSil)]

\* C9: every run that ends has shown exactly one message box, and no
\* exception has escaped process().
C9_OneNotification ==
    Finished => Len(notifications) = 1 /\ uncaught = "none"

\* the checkpoint of process() a callback made at a source line belongs to
Checkpoint(line) ==
    IF line \in 308..312 THEN "run_start"
    ELSE IF line \in (252..257) \cup (316..317) THEN "before_detect"
    ELSE IF line \in 325..358 THEN "before_encode"
    ELSE IF line \in {315, 319, 323} \cup (360..366) THEN "terminal"
    ELSE "other"

CallbackAt(c) == { i \in DOMAIN callbacks : Checkpoint(callbacks[i].line) = c }

\* C10: a run that returns has invoked the callback at run start and on the
\* terminal transition, and, when it reached encoding, before detection and
\* before the encode in between, in that order.
C10_CheckpointCallbacks ==
    pc = "done" =>
        /\ \E i \in CallbackAt("run_start"), l \in CallbackAt("terminal") : i < l
        /\ Launches("encode") # {} =>
              \E i \in CallbackAt("run_start"), j \in CallbackAt("before_detect"),
                 k \in CallbackAt("before_encode"), l \in CallbackAt("terminal") :
                  i < j /\ j < k /\ k < l

\* the encode sub-process of the current run has ended (line 359 returned)
EncodeEnded == outFile = "encoded"

\* C11: once the encode sub-process has exited with a non-zero status, it
\* stays the last and only encode launched in the run, and the run ends with
\* process() returning a failure whose message is the first 500 characters
\* of the captured stderr.
C11_EncodeFailureTerminal ==
    (EncodeEnded /\ rc # 0) =>
        /\ Cardinality(Launches("encode")) = 1
        /\ launched[Len(launched)].tool = "encode"
        /\ Finished =>
              /\ pc = "done"
              /\ result[1] = ProcessingResult(FALSE, 0, 0, 0, 0,
                                 Msg("stderr", Min(errLen, StderrLimit)))

Max(a, b) == IF a >= b THEN a ELSE b

\* number of keep segments of the run: 0 on the copy-unchanged path
SegmentCount == IF outFile = "copied" THEN 0 ELSE Len(segs)

\* kept duration of the run: everything on the copy-unchanged path
KeptDuration == IF outFile = "copied" THEN dur ELSE SumSeq(SegLengths(segs))

\* C12: every successful result has segments_removed = max(segmentCount - 1, 0),
\* never negative, and removed_duration = input_duration - kept duration.
C12_RemovedCounts ==
    (result # <<>> /\ result[1].success) =>
        /\ result[1].segments_removed = Max(SegmentCount - 1, 0)
        /\ result[1].segments_removed >= 0
        /\ result[1].removed_duration = result[1].input_duration - KeptDuration

\* positions of process() after the check of line 318 found the flag clear
PostPcs == {"p321", "p335", "p338", "p359", "enc_wait", "p360", "p363"}

\* C13: after the check of line 318 has passed, the cancellation flag is not
\* read again: no step of the worker changes the flag or produces a Cancelled
\* result, a launched encode sub-process is left to end by itself, and the
\* result returned after it is a success exactly when its exit status is 0,
\* whatever the flag says.
C13_LateCancelIgnored ==
    [][ (pc \in PostPcs /\ pc' # pc) =>
            /\ cancelled' = cancelled
            /\ result' # <<>> => result'[1].error_message.kind # "Cancelled"
            /\ (pc = "p359" /\ pc' # "crashed") =>
                   /\ pc' = "enc_wait"
                   /\ Len(launched') = Len(launched) + 1
                   /\ launched'[Len(launched')].tool = "encode"
            /\ pc = "enc_wait" => pc' = "p360"
            /\ pc = "p363" => /\ pc' = "run525"
                              /\ result'[1].success = (rc = 0) ]_vars

\* cancel() came between line 321 and line 363, and the encode sub-process
\* was launched all the same and has exited with status 0
C13_Witness ==
    /\ pc = "p363"
    /\ cancelled
    /\ rc = 0
    /\ Cardinality(Launches("encode")) = 1

\* the detection sub-process ran, its output held no marker, and the check
\* of line 318 found the flag clear: process() is at or past line 321
NoSilenceFound ==
    /\ Cardinality(Launches("detect")) = 1
    /\ sil = <<>>
    /\ pc \in (PostPcs \cup {"run525", "done", "crashed"}) \ {"p321"}
    /\ uncaught # "ValueError"
    /\ result # <<>> => result[1].error_message.kind # "Cancelled"

\* C14: when detection ends without a silence event and no cancellation was
\* requested, process() copies the input to the output, creates no temporary
\* file, launches no encode sub-process and returns a success with
\* output_duration = input_duration, removed_duration = 0 and
\* segments_removed = 0.
C14_NoSilenceCopies ==
    NoSilenceFound =>
        /\ tempFiles = NoTempFiles
        /\ Launches("encode") = {}
        /\ outFile = "copied"
        /\ result = << ProcessingResult(TRUE, dur, dur, 0, 0, NoMsg) >>

DurationUnknownResult ==
    ProcessingResult(FALSE, 0, 0, 0, 0, Msg("Duration unknown", 16))

\* C15: when get_video_info gives duration 0 (reported as zero, or the probe
\* failed), process() returns the failure "Duration unknown" straight away:
\* the run launches neither the detection nor the encode sub-process, copies
\* nothing and creates no temporary file.
C15_DurationUnknown ==
    (dur = 0 /\ pc \notin {"idle", "p311", "p312"}) =>
        /\ pc \in {"run525", "done"}
        /\ result = << DurationUnknownResult >>
        /\ launched = <<>>
        /\ outFile = "untouched"
        /\ tempFiles = NoTempFiles

\* a run whose probe failed has ended with the "Duration unknown" error box
C15_Witness ==
    /\ pc = "done"
    /\ dur = 0
    /\ callbacks = << [fn |-> "_log", level |-> "ERROR", line |-> 238] >>
    /\ notifications = << [box |-> "showerror", text |-> Msg("Duration unknown", 16)] >>

\* C16: while a worker thread is alive no second one is started: process()
\* is not entered again and the options of the run stay as they are; a Start
\* made meanwhile only shows the "Busy" warning and leaves the run alone.
C16_SingleActiveRun ==
    [][ Alive(pc) =>
            /\ pc' = "p311" => (pc = "p311" /\ opts' = opts)
            /\ dialog' # dialog =>
                   /\ dialog' = "Busy"
                   /\ UNCHANGED << pc, opts, cancelled, result, launched,
                                   tempFiles, outFile, notifications >> ]_vars

\* a Start was rejected while the detection sub-process of the run was running
C16_Witness ==
    /\ dialog = "Busy"
    /\ pc = "fs_wait"
    /\ Cardinality(Launches("detect")) = 1

\* the numbers of the lines that carry a marker and a well-formed payload,
\* in the order of the lines
WellFormedTimes(lines) ==
    LET ok == SelectSeq(lines, LAMBDA l : l.marker \in Markers /\ l.numOk)
    IN  [i \in 1..Len(ok) |-> ok[i].val]

\* C17: the parsing loop of find_silences raises no exception on a marker
\* line whose numeric payload is malformed; it skips that line only, and the
\* time stamps of all well-formed marker lines, later ones included, are
\* returned in order.
C17_MalformedSkipped ==
    psDone => /\ ~psOut.raised
              /\ psOut.times = WellFormedTimes(psLines)

CancelledResult == ProcessingResult(FALSE, dur, 0, 0, 0, Msg("Cancelled", 9))

\* C18: once find_silences has returned the empty list of line 256 because
\* the flag was set, the flag is still set at line 318 and the run returns
\* Cancelled: the input is never copied to the output, no sub-process is
\* launched, whenever cancel() is called.
C18_SkippedDetectionCancels ==
    detectSkipped =>
        /\ pc \in {"p318", "run525", "done"}
        /\ pc = "p318" => cancelled
        /\ pc # "p318" => result = << CancelledResult >>
        /\ outFile = "untouched"
        /\ launched = <<>>

\* a run cancelled before line 255 has ended with the "Cancelled" error box
C18_Witness ==
    /\ detectSkipped
    /\ pc = "done"
    /\ notifications = << [box |-> "showerror", text |-> Msg("Cancelled", 9)] >>

\* C19: a run whose result is "Cancelled" or "Duration unknown" has not
\* touched the output path (no copy, no encode sub-process) and has created
\* neither temporary file.
C19_EarlyExitsTouchNothing ==
    (result # <<>> /\ result[1].error_message.kind \in {"Cancelled", "Duration unknown"}) =>
        /\ outFile = "untouched"
        /\ Launches("encode") = {}
        /\ tempFiles = NoTempFiles

\* a run cancelled while the detection sub-process ran has ended
C19_Witness ==
    /\ pc = "done"
    /\ result = << CancelledResult >>
    /\ Cardinality(Launches("detect")) = 1
    /\ dur > 0

\* C20: every successful result process() returns has a non-zero
\* input_duration, so the division removed_duration / input_duration of the
\* success notification (line 529) never raises ZeroDivisionError.
C20_SuccessHasDuration ==
    /\ (result # <<>> /\ result[1].success) => result[1].input_duration # 0
    /\ uncaught # "ZeroDivisionError"

\* a successful run on the copy-unchanged path (removed_duration 0) has shown
\* its "Done" box
C20_Witness ==
    /\ pc = "done"
    /\ result # <<>>
    /\ result[1].success
    /\ result[1].removed_duration = 0
    /\ notifications = << [box |-> "showinfo", text |-> NoMsg] >>
====
